---- MODULE Spec2Model ----
(***************************************************************************)
(* Model of the GraphQL events server (src/src/index.ts): the four query   *)
(* resolvers events, uniqueTags, distinctVenues and lastUpdated, the       *)
(* per-request connection they open and end, the statement the events      *)
(* resolver builds, and the part of the MySQL store the statements use.    *)
(*                                                                         *)
(* Text values (filter arguments, column values, statement parameters) are *)
(* sequences of one-character strings, so that trim(), toLowerCase(),      *)
(* split(","), LIKE and FIND_IN_SET are computed character by character.   *)
(* An optional argument is a sequence of length 0 (null/undefined) or 1.   *)
(***************************************************************************)
EXTENDS Integers, Sequences, FiniteSets, TLC

VARIABLES
    table,     \* the rows of the events table (never written by the server)
    req,       \* req[p]: the operation and arguments of request p
    pc,        \* pc[p]: where resolver p stands
    conn,      \* conn[p]: index in conns of the connection p holds, 0 if none
    built,     \* built[p]: the statement and parameters p handed to execute()
    pending,   \* pending[p]: what the try/catch block of p produced
    outcome,   \* outcome[p]: what the caller of p received
    fault,     \* fault[p]: the storage step that failed for p, "none" if none
    conns      \* every connection created so far

vars == <<table, req, pc, conn, built, pending, outcome, fault, conns>>

(***************************************************************************)
(* Bounds of the model.                                                    *)
(***************************************************************************)
NumReq == 2        \* concurrent requests of the server specification
MaxTags == 2       \* longest tags argument
MaxPage == 2       \* largest limit and offset
MaxRows == 2       \* largest table of the specifications that draw tables

(***************************************************************************)
(* Optional values and text.                                               *)
(***************************************************************************)
Null == <<>>
Some(v) == <<v>>
IsSome(o) == Len(o) > 0
Val(o) == o[1]

\* JavaScript truthiness of an optional string: null, undefined and "" are falsy.
Truthy(o) == IF IsSome(o) THEN Len(Val(o)) > 0 ELSE FALSE

toLowerCaseChar(c) ==
    CASE c = "A" -> "a" [] c = "B" -> "b" [] c = "C" -> "c" [] c = "D" -> "d"
      [] c = "E" -> "e" [] c = "S" -> "s" [] OTHER -> c

toUpperCaseChar(c) ==
    CASE c = "a" -> "A" [] c = "b" -> "B" [] c = "c" -> "C" [] c = "d" -> "D"
      [] c = "e" -> "E" [] c = "s" -> "S" [] OTHER -> c

toLowerCase(s) == [i \in 1..Len(s) |-> toLowerCaseChar(s[i])]
toUpperCase(s) == [i \in 1..Len(s) |-> toUpperCaseChar(s[i])]

RECURSIVE trimStart(_)
trimStart(s) == IF Len(s) > 0 /\ Head(s) = " " THEN trimStart(Tail(s)) ELSE s

RECURSIVE trimEnd(_)
trimEnd(s) ==
    IF Len(s) > 0 /\ s[Len(s)] = " " THEN trimEnd(SubSeq(s, 1, Len(s) - 1)) ELSE s

trim(s) == trimEnd(trimStart(s))

\* String.prototype.split(","): "" gives [""], "a," gives ["a", ""].
RECURSIVE split(_)
split(s) ==
    IF \A i \in 1..Len(s) : s[i] # ","
    THEN <<s>>
    ELSE LET i == CHOOSE k \in 1..Len(s) :
                      /\ s[k] = ","
                      /\ \A j \in 1..(k - 1) : s[j] # ","
         IN  <<SubSeq(s, 1, i - 1)>> \o split(SubSeq(s, i + 1, Len(s)))

DigitChar(d) ==
    CASE d = 0 -> "0" [] d = 1 -> "1" [] d = 2 -> "2" [] d = 3 -> "3" [] d = 4 -> "4"
      [] d = 5 -> "5" [] d = 6 -> "6" [] d = 7 -> "7" [] d = 8 -> "8" [] OTHER -> "9"

DigitVal(c) ==
    CASE c = "1" -> 1 [] c = "2" -> 2 [] c = "3" -> 3 [] c = "4" -> 4 [] c = "5" -> 5
      [] c = "6" -> 6 [] c = "7" -> 7 [] c = "8" -> 8 [] c = "9" -> 9 [] OTHER -> 0

\* The template literal `${n}` of a positive integer.
RECURSIVE NumberToString(_)
NumberToString(n) ==
    IF n < 10 THEN <<DigitChar(n)>>
    ELSE Append(NumberToString(n \div 10), DigitChar(n % 10))

\* The store's reading of a numeric or date literal passed as text.
RECURSIVE NumVal(_)
NumVal(s) ==
    IF Len(s) = 0 THEN 0
    ELSE NumVal(SubSeq(s, 1, Len(s) - 1)) * 10 + DigitVal(s[Len(s)])

(***************************************************************************)
(* The events table and the store's scalar functions.                      *)
(* date_time is a two-digit number: the tens digit is the calendar date,   *)
(* the units digit the time of day.                                        *)
(***************************************************************************)
DATE(dt) == dt \div 10
TIME(dt) == dt % 10
DAYNAME(dt) == IF DATE(dt) % 2 = 1 THEN <<"M", "o", "n">> ELSE <<"T", "u", "e">>

\* s LIKE pat: % matches any run of characters, _ any one character.
RECURSIVE LIKE(_, _)
LIKE(s, pat) ==
    IF Len(pat) = 0 THEN Len(s) = 0
    ELSE IF Head(pat) = "%"
         THEN LIKE(s, Tail(pat)) \/ (Len(s) > 0 /\ LIKE(Tail(s), pat))
         ELSE /\ Len(s) > 0
              /\ (Head(pat) = "_" \/ Head(pat) = Head(s))
              /\ LIKE(Tail(s), Tail(pat))

\* FIND_IN_SET(str, strlist): the 1-based position of str among the elements of
\* strlist between its commas, compared whole and unpadded; 0 if there is none
\* or strlist is the empty string.
FIND_IN_SET(str, strlist) ==
    IF Len(strlist) = 0 THEN 0
    ELSE LET els == split(strlist)
             hits == {i \in 1..Len(els) : els[i] = str}
         IN  IF hits = {} THEN 0
             ELSE CHOOSE i \in hits : \A j \in hits : i <= j

LOWER(s) == toLowerCase(s)

(***************************************************************************)
(* The text of a statement is a sequence of the fragments the resolver     *)
(* concatenates.                                                           *)
(***************************************************************************)
SelectAll == "SELECT * FROM events WHERE 1=1"
TitleLike == " AND title LIKE ?"
DateGe == " AND DATE(date_time) >= ?"
DateLe == " AND DATE(date_time) <= ?"
DayNameEq == " AND DAYNAME(date_time) = ?"
TimeLe == " AND TIME(date_time) <= ?"
TimeGe == " AND TIME(date_time) >= ?"
VenueLike == " AND venue LIKE ?"
AndOpen == " AND ("
TagCondition == "FIND_IN_SET(LOWER(?), LOWER(tags)) > 0"
OrJoin == " OR "
Close == ")"
OrderBy == " ORDER BY "
LimitClause == " LIMIT ?"
OffsetClause == " OFFSET ?"

\* mysql.escapeId: the identifier between identifier quotes.
escapeId(f) == "\"" \o f \o "\""

Placeholders == {TitleLike, DateGe, DateLe, DayNameEq, TimeLe, TimeGe, VenueLike,
                 TagCondition, LimitClause, OffsetClause}

RECURSIVE CountPlaceholders(_)
CountPlaceholders(q) ==
    IF Len(q) = 0 THEN 0
    ELSE (IF Head(q) \in Placeholders THEN 1 ELSE 0) + CountPlaceholders(Tail(q))

(***************************************************************************)
(* The events resolver's statement builder, one operator per if-block.     *)
(***************************************************************************)
EmptyStatement == [kind |-> "ok", query |-> <<SelectAll>>, params |-> <<>>, message |-> ""]

Push(b, fragment, param) ==
    [b EXCEPT !.query = Append(@, fragment), !.params = Append(@, param)]

Throw(b, m) == [b EXCEPT !.kind = "throw", !.message = m]

Contains(v) == <<"%">> \o v \o <<"%">>

AddTitleContains(b, a) ==
    IF Truthy(a.titleContains) THEN Push(b, TitleLike, Contains(Val(a.titleContains))) ELSE b

AddStartDate(b, a) ==
    IF Truthy(a.startDate) THEN Push(b, DateGe, Val(a.startDate)) ELSE b

\* The end date compared with the operator of the start date.
AddEndDateAsStart(b, a) ==
    IF Truthy(a.endDate) THEN Push(b, DateGe, Val(a.endDate)) ELSE b

AddEndDate(b, a) ==
    IF Truthy(a.endDate) THEN Push(b, DateLe, Val(a.endDate)) ELSE b

\* The day name written into the statement text instead of bound to a placeholder.
AddDayOfWeekInterpolated(b, a) ==
    IF Truthy(a.dayOfWeek)
    THEN [b EXCEPT !.query = Append(@, IF Val(a.dayOfWeek) = <<"M", "o", "n">>
                                       THEN " AND DAYNAME(date_time) = 'Mon'"
                                       ELSE " AND DAYNAME(date_time) = 'other'")]
    ELSE b

AddDayOfWeek(b, a) ==
    IF Truthy(a.dayOfWeek) THEN Push(b, DayNameEq, Val(a.dayOfWeek)) ELSE b

AddTimeOfDayBefore(b, a) ==
    IF Truthy(a.timeOfDayBefore) THEN Push(b, TimeLe, Val(a.timeOfDayBefore)) ELSE b

AddTimeOfDayAfter(b, a) ==
    IF Truthy(a.timeOfDayAfter) THEN Push(b, TimeGe, Val(a.timeOfDayAfter)) ELSE b

AddVenueContains(b, a) ==
    IF Truthy(a.venueContains) THEN Push(b, VenueLike, Contains(Val(a.venueContains))) ELSE b

\* tags.map(...).join(" OR ")
RECURSIVE tagConditions(_)
tagConditions(n) ==
    IF n = 0 THEN <<>>
    ELSE IF n = 1 THEN <<TagCondition>>
    ELSE <<TagCondition, OrJoin>> \o tagConditions(n - 1)

\* ` AND (${tagConditions})`
TagGroup(n) == <<AndOpen>> \o tagConditions(n) \o <<Close>>

\* tag.trim().toLowerCase()
TagParam(tag) == toLowerCase(trim(tag))

AddTags(b, a) ==
    IF IsSome(a.tags) /\ Len(Val(a.tags)) > 0
    THEN LET tags == Val(a.tags)
         IN  IF \E i \in 1..Len(tags) : ~IsSome(tags[i])
             THEN Throw(b, "TypeError")       \* null.trim()
             ELSE [b EXCEPT !.query = @ \o TagGroup(Len(tags)),
                            !.params = @ \o [i \in 1..Len(tags) |-> TagParam(Val(tags[i]))]]
    ELSE b

validSortFields == {"date_time"}

DESC == <<"D", "E", "S", "C">>

\* The order compared with "DESC" as it was sent, without toUpperCase().
sortOrderCaseSensitive(sort) ==
    IF Truthy(sort.order) /\ Val(sort.order) = DESC THEN "DESC" ELSE "ASC"

sortOrder(sort) ==
    IF Truthy(sort.order) /\ toUpperCase(Val(sort.order)) = DESC THEN "DESC" ELSE "ASC"

HasSortField(a) ==
    /\ IsSome(a.sort)
    /\ IsSome(Val(a.sort).field)
    /\ Val(Val(a.sort).field) # ""

AddSort(b, a) ==
    IF b.kind = "throw" THEN b
    ELSE IF HasSortField(a)
    THEN LET sort == Val(a.sort)
         IN  IF Val(sort.field) \notin validSortFields
             THEN Throw(b, "Invalid sort field")
             ELSE [b EXCEPT !.query =
                       @ \o <<OrderBy, escapeId(Val(sort.field)), " ", sortOrder(sort)>>]
    ELSE b

\* The test n >= 0 in place of n > 0.
NotNegative(n) == IF IsSome(n) THEN Val(n) >= 0 ELSE FALSE

Positive(n) == IF IsSome(n) THEN Val(n) > 0 ELSE FALSE

AddLimit(b, a) ==
    IF b.kind = "throw" THEN b
    ELSE IF Positive(a.limit) THEN Push(b, LimitClause, NumberToString(Val(a.limit)))
    ELSE b

AddOffset(b, a) ==
    IF b.kind = "throw" THEN b
    ELSE IF Positive(a.offset) THEN Push(b, OffsetClause, NumberToString(Val(a.offset)))
    ELSE b

\* Lines 89-156 of the events resolver: the statement and its parameters, or
\* the exception thrown on the way.
BuildEvents(a) ==
    AddOffset(AddLimit(AddSort(AddTags(AddVenueContains(AddTimeOfDayAfter(
        AddTimeOfDayBefore(AddDayOfWeek(AddEndDate(AddStartDate(
            AddTitleContains(EmptyStatement, a), a), a), a), a), a), a), a), a), a), a)

(***************************************************************************)
(* The store's reading of a statement: the WHERE condition is parsed with  *)
(* SQL's precedence (AND binds tighter than OR, parentheses group), each ? *)
(* is bound to the parameter at its position, then ORDER BY, LIMIT and     *)
(* OFFSET are applied.                                                     *)
(***************************************************************************)
Lex(fragment) ==
    CASE fragment = SelectAll -> <<"1=1">>
      [] fragment = TitleLike -> <<"AND", "title LIKE ?">>
      [] fragment = DateGe -> <<"AND", "DATE >= ?">>
      [] fragment = DateLe -> <<"AND", "DATE <= ?">>
      [] fragment = DayNameEq -> <<"AND", "DAYNAME = ?">>
      [] fragment = TimeLe -> <<"AND", "TIME <= ?">>
      [] fragment = TimeGe -> <<"AND", "TIME >= ?">>
      [] fragment = VenueLike -> <<"AND", "venue LIKE ?">>
      [] fragment = AndOpen -> <<"AND", "(">>
      [] fragment = TagCondition -> <<"FIND_IN_SET > 0">>
      [] fragment = OrJoin -> <<"OR">>
      [] fragment = Close -> <<")">>
      [] OTHER -> <<"?">>

RECURSIVE LexAll(_)
LexAll(q) == IF Len(q) = 0 THEN <<>> ELSE Lex(Head(q)) \o LexAll(Tail(q))

TailClauses == {OrderBy, LimitClause, OffsetClause}

\* Index of the first fragment after the WHERE condition.
WhereEnd(q) ==
    IF \E i \in 1..Len(q) : q[i] \in TailClauses
    THEN CHOOSE i \in 1..Len(q) :
             /\ q[i] \in TailClauses
             /\ \A j \in 1..(i - 1) : q[j] \notin TailClauses
    ELSE Len(q) + 1

WherePart(q) == SubSeq(q, 1, WhereEnd(q) - 1)
TailPart(q) == SubSeq(q, WhereEnd(q), Len(q))

\* One predicate of the WHERE condition on row r with its parameter.
AtomHolds(atom, param, r) ==
    CASE atom = "title LIKE ?" -> LIKE(r.title, param)
      [] atom = "DATE >= ?" -> DATE(r.date_time) >= NumVal(param)
      [] atom = "DATE <= ?" -> DATE(r.date_time) <= NumVal(param)
      [] atom = "DAYNAME = ?" -> DAYNAME(r.date_time) = param
      [] atom = "TIME <= ?" -> TIME(r.date_time) <= NumVal(param)
      [] atom = "TIME >= ?" -> TIME(r.date_time) >= NumVal(param)
      [] atom = "venue LIKE ?" -> LIKE(r.venue, param)
      [] atom = "FIND_IN_SET > 0" -> FIND_IN_SET(LOWER(param), LOWER(r.tags)) > 0
      [] OTHER -> FALSE

Connectives == {"AND", "OR", "(", ")", "?"}

\* The condition's symbols with every predicate replaced by its truth value on r;
\* the k-th placeholder takes the k-th parameter.
RECURSIVE Bind(_, _, _)
Bind(syms, params, r) ==
    IF Len(syms) = 0 THEN <<>>
    ELSE IF Head(syms) \in Connectives THEN <<Head(syms)>> \o Bind(Tail(syms), params, r)
    ELSE IF Head(syms) = "1=1" THEN <<"T">> \o Bind(Tail(syms), params, r)
    ELSE IF Len(params) = 0 THEN <<"?">> \o Bind(Tail(syms), params, r)
    ELSE <<IF AtomHolds(Head(syms), Head(params), r) THEN "T" ELSE "F">>
             \o Bind(Tail(syms), Tail(params), r)

\* Recursive descent: expr ::= term {OR term}, term ::= factor {AND factor},
\* factor ::= T | F | ( expr ).  Each returns the value, the next position and
\* whether the text read so far is grammatical.
RECURSIVE ParseOr(_, _), ParseAnd(_, _), ParseFactor(_, _)
ParseFactor(s, i) ==
    IF i > Len(s) THEN [val |-> FALSE, pos |-> i, ok |-> FALSE]
    ELSE IF s[i] = "(" THEN
        LET e == ParseOr(s, i + 1)
        IN  [val |-> e.val, pos |-> e.pos + 1,
             ok |-> e.ok /\ e.pos <= Len(s) /\ s[IF e.pos <= Len(s) THEN e.pos ELSE 1] = ")"]
    ELSE [val |-> s[i] = "T", pos |-> i + 1, ok |-> s[i] \in {"T", "F"}]

ParseAnd(s, i) ==
    LET f == ParseFactor(s, i)
    IN  IF f.ok /\ f.pos <= Len(s) /\ s[IF f.pos <= Len(s) THEN f.pos ELSE 1] = "AND"
        THEN LET t == ParseAnd(s, f.pos + 1)
             IN  [val |-> f.val /\ t.val, pos |-> t.pos, ok |-> t.ok]
        ELSE f

ParseOr(s, i) ==
    LET t == ParseAnd(s, i)
    IN  IF t.ok /\ t.pos <= Len(s) /\ s[IF t.pos <= Len(s) THEN t.pos ELSE 1] = "OR"
        THEN LET e == ParseOr(s, t.pos + 1)
             IN  [val |-> t.val \/ e.val, pos |-> e.pos, ok |-> e.ok]
        ELSE t

\* Does row r satisfy the WHERE condition of statement q with parameters params?
Where(q, params, r) ==
    LET s == Bind(LexAll(WherePart(q)), params, r)
    IN  ParseOr(s, 1).val

SortColumns == {escapeId("date_time")}

IsOrderBy(t) ==
    /\ Len(t) = 4
    /\ t[1] = OrderBy
    /\ t[2] \in SortColumns
    /\ t[3] = " "
    /\ t[4] \in {"ASC", "DESC"}

HasOrderBy(q) == Len(TailPart(q)) > 0 /\ TailPart(q)[1] = OrderBy

\* The fragments after ORDER BY: nothing, LIMIT ?, or LIMIT ? OFFSET ?.
Paging(q) == IF HasOrderBy(q) THEN SubSeq(TailPart(q), 5, Len(TailPart(q))) ELSE TailPart(q)

\* The grammar the store accepts: SELECT ... WHERE condition [ORDER BY column
\* direction] [LIMIT ? [OFFSET ?]], with one parameter for every placeholder.
WellFormed(q, params) ==
    LET w == WherePart(q)
        row == [title |-> <<>>, date_time |-> 0, venue |-> <<>>, link |-> <<>>,
                tags |-> <<>>, last_updated |-> 0]
        s == Bind(LexAll(w), params, row)
        e == ParseOr(s, 1)
    IN  /\ Len(w) > 0
        /\ w[1] = SelectAll
        /\ e.ok
        /\ e.pos = Len(s) + 1
        /\ (HasOrderBy(q) =>
               (Len(TailPart(q)) >= 4 /\ IsOrderBy(SubSeq(TailPart(q), 1, 4))))
        /\ Paging(q) \in {<<>>, <<LimitClause>>, <<LimitClause, OffsetClause>>}
        /\ CountPlaceholders(q) = Len(params)

RowsWhere(q, params, t) == SelectSeq(t, LAMBDA r : Where(q, params, r))

Reorderings(s) ==
    LET n == Len(s)
        bij == {f \in [1..n -> 1..n] : \A i, j \in 1..n : f[i] = f[j] => i = j}
    IN  {[i \in 1..n |-> s[f[i]]] : f \in bij}

Ordered(s, dir) ==
    \A i \in 1..(Len(s) - 1) :
        IF dir = "DESC" THEN s[i].date_time >= s[i + 1].date_time
        ELSE s[i].date_time <= s[i + 1].date_time

\* Every order the store may return the selected rows in: the ORDER BY order where
\* there is one (ties in any order), any order where there is none.
Orderings(q, rows) ==
    IF HasOrderBy(q)
    THEN {s \in Reorderings(rows) : Ordered(s, TailPart(q)[4])}
    ELSE Reorderings(rows)

LimitOf(q, params) ==
    IF Len(Paging(q)) >= 1
    THEN NumVal(params[CountPlaceholders(WherePart(q)) + 1])
    ELSE -1

OffsetOf(q, params) ==
    IF Len(Paging(q)) >= 2
    THEN NumVal(params[CountPlaceholders(WherePart(q)) + 2])
    ELSE 0

Page(s, limit, offset) ==
    IF limit < 0 THEN s
    ELSE SubSeq(s, offset + 1, IF offset + limit < Len(s) THEN offset + limit ELSE Len(s))

\* connection.execute(query, params) on a well-formed statement: the possible
\* row sequences.
ExecuteRows(q, params, t) ==
    {Page(s, LimitOf(q, params), OffsetOf(q, params)) :
        s \in Orderings(q, RowsWhere(q, params, t))}

(***************************************************************************)
(* What the resolvers make of the rows.                                    *)
(***************************************************************************)
\* Array.from(new Set(xs)): the first occurrence of every element, in order.
RECURSIVE ArrayFromSet(_)
ArrayFromSet(xs) ==
    IF Len(xs) = 0 THEN <<>>
    ELSE LET front == ArrayFromSet(SubSeq(xs, 1, Len(xs) - 1))
             x == xs[Len(xs)]
         IN  IF \E i \in 1..Len(front) : front[i] = x THEN front ELSE Append(front, x)

\* row.tags.split(",").map((tag) => tag.trim().toLowerCase())
RowTags(r) == LET els == split(r.tags) IN [i \in 1..Len(els) |-> toLowerCase(trim(els[i]))]

RECURSIVE allTags(_)
allTags(rows) == IF Len(rows) = 0 THEN <<>> ELSE RowTags(Head(rows)) \o allTags(Tail(rows))

UniqueTagsOf(rows) == ArrayFromSet(allTags(rows))

\* SELECT DISTINCT venue, then rows.map((row) => ({ venue: row.venue }))
DistinctVenuesOf(t) == ArrayFromSet([i \in 1..Len(t) |-> t[i].venue])
VenueObjects(vs) == [i \in 1..Len(vs) |-> [venue |-> vs[i]]]

\* SELECT MAX(last_updated): one row, NULL on an empty table.
MaxLastUpdated(t) ==
    IF Len(t) = 0 THEN Null
    ELSE Some(CHOOSE m \in {t[i].last_updated : i \in 1..Len(t)} :
                 \A i \in 1..Len(t) : t[i].last_updated <= m)

(***************************************************************************)
(* Results and errors as the caller sees them.                             *)
(***************************************************************************)
NoOutcome == [kind |-> "none", message |-> "", value |-> <<>>]
Result(kind, v) == [kind |-> kind, message |-> "", value |-> v]
Error(m) == [kind |-> "error", message |-> m, value |-> <<>>]

GenericError(op) ==
    CASE op = "events" -> "Failed to fetch events"
      [] op = "uniqueTags" -> "Failed to fetch unique tags"
      [] op = "distinctVenues" -> "Failed to fetch distinct venues"
      [] OTHER -> "Failed to fetch last_updated"

\* The catch block of a resolver: whatever was thrown in its try block becomes
\* the operation's generic error.
Catch(op, thrown) == Error(GenericError(op))

\* mysql.createConnection: a new open connection owned by request p.
NewConnection(p) == [owner |-> p, state |-> "open", ends |-> 0, users |-> {}]

\* connection.execute on connection c by request p.
Used(c, p) == [c EXCEPT !.users = @ \cup {p}]

\* connection.end()
Ended(c) == [c EXCEPT !.state = "closed", !.ends = @ + 1]

\* A resolver without the finally block: it completes without ending the connection.
FinallySkipped == "done"

\* Where a resolver goes when its try block completes or throws: the finally
\* block, which ends the connection.
Finally == "closing"

Procs == DOMAIN pc

(***************************************************************************)
(* The resolvers, one action per step between two awaits.                  *)
(***************************************************************************)
\* const connection = await connectToDatabase();  (outside the try block)
connectToDatabase(p) ==
    /\ pc[p] = "start"
    /\ \/ /\ conns' = Append(conns, NewConnection(p))
          /\ conn' = [conn EXCEPT ![p] = Len(conns) + 1]
          /\ pc' = [pc EXCEPT ![p] = "connected"]
          /\ UNCHANGED <<outcome, fault>>
       \/ /\ outcome' = [outcome EXCEPT ![p] = Error("ECONNREFUSED")]
          /\ fault' = [fault EXCEPT ![p] = "connect"]
          /\ pc' = [pc EXCEPT ![p] = "done"]
          /\ UNCHANGED <<conns, conn>>
    /\ UNCHANGED <<table, req, built, pending>>

\* events: the try block up to the call of connection.execute(query, params).
events(p) ==
    /\ pc[p] = "connected"
    /\ req[p].op = "events"
    /\ LET b == BuildEvents(req[p].args)
       IN  \/ /\ b.kind = "throw"
              /\ pending' = [pending EXCEPT ![p] = Catch("events", b.message)]
              /\ pc' = [pc EXCEPT ![p] = Finally]
              /\ UNCHANGED <<built, conns>>
           \/ /\ b.kind = "ok"
              /\ built' = [built EXCEPT ![p] = b]
              /\ conns' = [conns EXCEPT ![conn[p]] = Used(@, p)]
              /\ pc' = [pc EXCEPT ![p] = "executing"]
              /\ UNCHANGED pending
    /\ UNCHANGED <<table, req, conn, outcome, fault>>

\* events: the store's answer to execute(), then return rows or the catch block.
execute(p) ==
    /\ pc[p] = "executing"
    /\ \/ /\ WellFormed(built[p].query, built[p].params)
          /\ \E rows \in ExecuteRows(built[p].query, built[p].params, table) :
                 pending' = [pending EXCEPT ![p] = Result("rows", rows)]
          /\ UNCHANGED fault
       \/ /\ ~WellFormed(built[p].query, built[p].params)
          /\ pending' = [pending EXCEPT ![p] = Catch("events", "ER_PARSE_ERROR")]
          /\ fault' = [fault EXCEPT ![p] = "syntax"]
       \/ /\ pending' = [pending EXCEPT ![p] = Catch("events", "ECONNRESET")]
          /\ fault' = [fault EXCEPT ![p] = "execute"]
    /\ pc' = [pc EXCEPT ![p] = Finally]
    /\ UNCHANGED <<table, req, conn, built, outcome, conns>>

\* A resolver with a fixed query: execute it, then the value or the catch block.
FixedQuery(p, op, kind, values) ==
    /\ pc[p] = "connected"
    /\ req[p].op = op
    /\ \/ /\ \E v \in values : pending' = [pending EXCEPT ![p] = Result(kind, v)]
          /\ UNCHANGED fault
       \/ /\ pending' = [pending EXCEPT ![p] = Catch(op, "ECONNRESET")]
          /\ fault' = [fault EXCEPT ![p] = "execute"]
    /\ conns' = [conns EXCEPT ![conn[p]] = Used(@, p)]
    /\ pc' = [pc EXCEPT ![p] = Finally]
    /\ UNCHANGED <<table, req, conn, built, outcome>>

uniqueTags(p) ==
    FixedQuery(p, "uniqueTags", "tags", {UniqueTagsOf(rows) : rows \in Reorderings(table)})

distinctVenues(p) ==
    FixedQuery(p, "distinctVenues", "venues",
               {VenueObjects(vs) : vs \in Reorderings(DistinctVenuesOf(table))})

lastUpdated(p) ==
    FixedQuery(p, "lastUpdated", "value", {MaxLastUpdated(table)})

\* finally { await connection.end(); } and the resolver's completion.
\* mysql2's promise wrapper resolves end() whatever the server answers.
end(p) ==
    /\ pc[p] = "closing"
    /\ conns' = [conns EXCEPT ![conn[p]] = Ended(@)]
    /\ outcome' = [outcome EXCEPT ![p] = pending[p]]
    /\ pc' = [pc EXCEPT ![p] = "done"]
    /\ UNCHANGED <<table, req, conn, built, pending, fault>>

Next ==
    \/ \E p \in Procs : connectToDatabase(p)
    \/ \E p \in Procs : events(p)
    \/ \E p \in Procs : execute(p)
    \/ \E p \in Procs : uniqueTags(p)
    \/ \E p \in Procs : distinctVenues(p)
    \/ \E p \in Procs : lastUpdated(p)
    \/ \E p \in Procs : end(p)

(***************************************************************************)
(* Requests and tables.                                                    *)
(***************************************************************************)
NoArgs ==
    [titleContains |-> Null, startDate |-> Null, endDate |-> Null, dayOfWeek |-> Null,
     timeOfDayBefore |-> Null, timeOfDayAfter |-> Null, venueContains |-> Null,
     tags |-> Null, sort |-> Null, limit |-> Null, offset |-> Null]

Request(op, args) == [op |-> op, args |-> args]

SortBy(field, order) == Some([field |-> field, order |-> order])

Row(title, dt, venue, tags, updated) ==
    [title |-> title, date_time |-> dt, venue |-> venue, link |-> <<"u">>,
     tags |-> tags, last_updated |-> updated]

Mon == <<"M", "o", "n">>

\* The three resolvers without arguments, and events requests that take each
\* path of the resolver: no argument, a valid sort, an invalid sort, an offset.
BaseRequests ==
    {Request(op, NoArgs) : op \in {"events", "uniqueTags", "distinctVenues", "lastUpdated"}}
    \cup {Request("events", [NoArgs EXCEPT !.sort = SortBy(Some(f), Null)]) :
              f \in {"date_time", "title"}}
    \cup {Request("events", [NoArgs EXCEPT !.offset = Some(1)])}

BaseTable ==
    <<Row(<<"a", "b">>, 11, <<"a">>, <<"a", ",", " ", "B">>, 1),
      Row(<<"b">>, 22, <<"b">>, <<"A">>, 2)>>

\* Every filter absent, empty, or set.
FilterArgs ==
    {[NoArgs EXCEPT !.titleContains = t, !.startDate = s, !.endDate = e,
                    !.dayOfWeek = d, !.timeOfDayBefore = b, !.timeOfDayAfter = a,
                    !.venueContains = v, !.tags = g] :
        t \in {Null, Some(<<>>), Some(<<"a">>)},
        s \in {Null, Some(<<>>), Some(<<"1">>)},
        e \in {Null, Some(<<>>), Some(<<"1">>)},
        d \in {Null, Some(<<>>), Some(Mon)},
        b \in {Null, Some(<<>>), Some(<<"2">>)},
        a \in {Null, Some(<<>>), Some(<<"2">>)},
        v \in {Null, Some(<<>>), Some(<<"b">>)},
        g \in {Null, Some(<<>>), Some(<<Some(<<"a">>), Some(<<" ", "B">>)>>)}}

FilterTable ==
    <<Row(<<"a", "b">>, 12, <<"a", "b">>, <<"a", ",", "c">>, 1),
      Row(<<"a">>, 12, <<"b">>, <<"c">>, 1),
      Row(<<"b", "a">>, 22, <<"b">>, <<"b">>, 2)>>

\* Every row the predicates are evaluated on.
RowDomain ==
    {Row(t, dt, v, g, 1) :
        t \in {<<"a">>, <<"b">>},
        dt \in {11, 12, 13, 22},
        v \in {<<"a">>, <<"b">>},
        g \in {<<"a">>, <<"c">>, <<"c", ",", "B">>}}

\* A tag of a request: null, or text with upper case and surrounding blanks.
TagElements ==
    {Null, Some(<<>>), Some(<<"a">>), Some(<<" ", "A", " ">>), Some(<<"b">>)}

TagLists == UNION {[1..n -> TagElements] : n \in 0..MaxTags}

TagArgs == {[NoArgs EXCEPT !.tags = g] : g \in {Null} \cup {Some(l) : l \in TagLists}}

TagRows ==
    {Row(<<"a">>, 11, <<"a">>, g, 1) :
        g \in {<<"a", ",", "b">>, <<"a", ",", " ", "B">>, <<"A">>, <<>>}}

TablesOf(rows) == UNION {[1..n -> rows] : n \in 0..MaxRows}

SortFields == {Null, Some(""), Some("date_time"), Some("title")}

SortOrders ==
    {Null, Some(<<>>), Some(DESC), Some(<<"d", "e", "s", "c">>), Some(<<"D", "e", "S", "c">>),
     Some(<<"A", "S", "C">>), Some(<<"D", "E", "S">>)}

Pages == {Null} \cup {Some(n) : n \in (-1)..MaxPage}

SortPageArgs ==
    {[NoArgs EXCEPT !.sort = s, !.limit = l, !.offset = o] :
        s \in {Null} \cup {SortBy(f, d) : f \in SortFields, d \in SortOrders},
        l \in Pages, o \in Pages}

SortRows == {Row(<<"a">>, dt, <<"a">>, <<"a">>, 1) : dt \in {11, 12, 21}}

\* The first n of a list of distinct tags.
FirstTags(n) == SubSeq(<<Some(<<"a">>), Some(<<" ", "B">>), Some(<<"c">>), Some(<<"A", " ">>)>>, 1, n)

\* Every filter absent or set to a non-empty value, with sort, limit and offset.
ParamArgs ==
    {[titleContains |-> t, startDate |-> s, endDate |-> e, dayOfWeek |-> d,
      timeOfDayBefore |-> b, timeOfDayAfter |-> a, venueContains |-> v,
      tags |-> g, sort |-> o, limit |-> l, offset |-> f] :
        t \in {Null, Some(<<"a">>)},
        s \in {Null, Some(<<"1">>)},
        e \in {Null, Some(<<"2">>)},
        d \in {Null, Some(Mon)},
        b \in {Null, Some(<<"2">>)},
        a \in {Null, Some(<<"1">>)},
        v \in {Null, Some(<<"a">>)},
        g \in {Null} \cup {Some(FirstTags(n)) : n \in 1..MaxTags},
        o \in {Null, SortBy(Some("date_time"), Null),
                     SortBy(Some("date_time"), Some(<<"d", "e", "s", "c">>))},
        l \in {Null} \cup {Some(n) : n \in 1..MaxPage},
        f \in {Null, Some(1)}}

EventsRequests(args) == {Request("events", a) : a \in args}

(***************************************************************************)
(* Specifications: the same resolvers on different requests and tables.    *)
(***************************************************************************)
InitWith(procs, requests, tables) ==
    /\ table \in tables
    /\ req \in [procs -> requests]
    /\ pc = [p \in procs |-> "start"]
    /\ conn = [p \in procs |-> 0]
    /\ built = [p \in procs |-> EmptyStatement]
    /\ pending = [p \in procs |-> NoOutcome]
    /\ outcome = [p \in procs |-> NoOutcome]
    /\ fault = [p \in procs |-> "none"]
    /\ conns = <<>>

\* Concurrent requests to the four resolvers.
Init == InitWith(1..NumReq, BaseRequests, {BaseTable})
Spec == Init /\ [][Next]_vars

\* One request, every combination of the filters.
InitFilters == InitWith({1}, BaseRequests \cup EventsRequests(FilterArgs), {FilterTable})
SpecFilters == InitFilters /\ [][Next]_vars

\* One request, every combination of present filters, sort, limit and offset.
InitParams == InitWith({1}, BaseRequests \cup EventsRequests(ParamArgs), {BaseTable})
SpecParams == InitParams /\ [][Next]_vars

\* One request, tags arguments against tables of tag lists.
InitTags == InitWith({1}, BaseRequests \cup EventsRequests(TagArgs), TablesOf(TagRows))
SpecTags == InitTags /\ [][Next]_vars

\* One request, every sort, limit and offset.
InitSortPage ==
    InitWith({1}, BaseRequests \cup EventsRequests(SortPageArgs), TablesOf(SortRows))
SpecSortPage == InitSortPage /\ [][Next]_vars

(***************************************************************************)
(* Properties of the concurrent server (Spec).                             *)
(***************************************************************************)
Done(p) == pc[p] = "done"

\* Request p got a connection (its resolver entered the try block).
Connected(p) == conn[p] # 0

\* Request p sent a query on its connection.
Sent(p) == IF Connected(p) THEN p \in conns[conn[p]].users ELSE FALSE

InvalidSort(a) ==
    IF HasSortField(a) THEN Val(Val(a.sort).field) \notin validSortFields ELSE FALSE

\* C1: an events request whose sort.field is outside the allow-list fails with a
\* validation error that differs from the generic storage error of events, and
\* sends no query to the store.  (Stated for the requests that got a connection,
\* the only ones that reach the validation.)
InvalidSortFailsDistinctly ==
    \A p \in Procs :
        (Done(p) /\ Connected(p) /\ req[p].op = "events" /\ InvalidSort(req[p].args)) =>
            /\ outcome[p].kind = "error"
            /\ outcome[p].message # GenericError("events")
            /\ ~Sent(p)

\* C2: a storage failure at any step of a request reaches the caller as the
\* operation's generic error, never as the underlying storage error.
StorageFailureIsGeneric ==
    \A p \in Procs :
        (Done(p) /\ fault[p] # "none") => outcome[p] = Error(GenericError(req[p].op))

\* C3: under any interleaving, a connection is held and used by the request that
\* opened it only, is ended at most once, and is ended exactly once by the time
\* its request has completed, with a result or with an error; when every request
\* has completed no connection is open.
ConnectionPerRequest ==
    /\ \A c \in 1..Len(conns) :
           LET k == conns[c]
           IN  /\ \A p \in Procs : (conn[p] = c) <=> (p = k.owner)
               /\ k.users \subseteq {k.owner}
               /\ k.ends <= 1
               /\ (k.state = "closed") <=> (k.ends = 1)
               /\ Done(k.owner) => (k.state = "closed" /\ k.ends = 1)
               /\ (k.state = "closed") => Done(k.owner)
    /\ (\A p \in Procs : Done(p)) => \A c \in 1..Len(conns) : conns[c].state = "closed"

\* Two requests ran concurrently on a connection each and both completed, one with
\* the error of a rejected sort field, the other with rows.
ConnectionPerRequestWitness ==
    \E p, q \in Procs :
        /\ p # q
        /\ Done(p) /\ Done(q)
        /\ Connected(p) /\ Connected(q)
        /\ InvalidSort(req[p].args) /\ outcome[p].kind = "error"
        /\ outcome[q].kind = "rows" /\ Len(outcome[q].value) = 2
        /\ \A c \in 1..Len(conns) : conns[c].state = "closed" /\ conns[c].ends = 1

(***************************************************************************)
(* Properties of the statement built from the filters (SpecFilters).       *)
(***************************************************************************)
FilterNames ==
    {"titleContains", "startDate", "endDate", "dayOfWeek", "timeOfDayBefore",
     "timeOfDayAfter", "venueContains", "tags"}

\* The filter was given in the request, with whatever value.
Supplied(a, f) == IsSome(a[f])

\* The filter was given a non-empty text or a non-empty list.
NonEmpty(a, f) == IF IsSome(a[f]) THEN Len(Val(a[f])) > 0 ELSE FALSE

\* The predicate of one filter on row r.
FilterHolds(f, a, r) ==
    CASE f = "titleContains" -> LIKE(r.title, Contains(Val(a.titleContains)))
      [] f = "startDate" -> DATE(r.date_time) >= NumVal(Val(a.startDate))
      [] f = "endDate" -> DATE(r.date_time) <= NumVal(Val(a.endDate))
      [] f = "dayOfWeek" -> DAYNAME(r.date_time) = Val(a.dayOfWeek)
      [] f = "timeOfDayBefore" -> TIME(r.date_time) <= NumVal(Val(a.timeOfDayBefore))
      [] f = "timeOfDayAfter" -> TIME(r.date_time) >= NumVal(Val(a.timeOfDayAfter))
      [] f = "venueContains" -> LIKE(r.venue, Contains(Val(a.venueContains)))
      [] OTHER -> \E i \in 1..Len(Val(a.tags)) :
                      FIND_IN_SET(LOWER(TagParam(Val(Val(a.tags)[i]))), LOWER(r.tags)) > 0

\* The fragments that open one predicate of the conjunction.
PredicateFragments ==
    {TitleLike, DateGe, DateLe, DayNameEq, TimeLe, TimeGe, VenueLike, AndOpen}

RECURSIVE CountIn(_, _)
CountIn(q, S) ==
    IF Len(q) = 0 THEN 0
    ELSE (IF Head(q) \in S THEN 1 ELSE 0) + CountIn(Tail(q), S)

TableRows == {table[i] : i \in 1..Len(table)}

\* The statement of request p selects the conjunction of the predicates of the
\* filters that `given` holds of, one predicate for each, and so does its result.
Conjoins(p, given(_, _)) ==
    LET a == req[p].args
        q == built[p].query
        ps == built[p].params
        all(r) == \A f \in FilterNames : given(a, f) => FilterHolds(f, a, r)
    IN  /\ \A r \in RowDomain \cup TableRows : Where(q, ps, r) <=> all(r)
        /\ CountIn(WherePart(q), PredicateFragments)
               = Cardinality({f \in FilterNames : given(a, f)})
        /\ (outcome[p].kind = "rows" /\ Paging(q) = <<>>) =>
               outcome[p].value \in Reorderings(SelectSeq(table, all))

BuiltEvents(p) == req[p].op = "events" /\ Sent(p)

\* C4 as claimed: the statement selects exactly the rows that satisfy the
\* predicate of every supplied filter, one predicate for each supplied filter and
\* none for an absent one.
SuppliedFiltersConjoined ==
    \A p \in Procs : BuiltEvents(p) => Conjoins(p, Supplied)

\* C4 as amended: the same for the filters supplied with a non-empty value; a
\* filter supplied as the empty string or the empty list counts as absent.
NonEmptyFiltersConjoined ==
    \A p \in Procs : BuiltEvents(p) => Conjoins(p, NonEmpty)

\* A completed request with several filters set and one given as the empty
\* string, whose result holds some rows of the table and not others.
NonEmptyFiltersConjoinedWitness ==
    \E p \in Procs :
        /\ Done(p) /\ BuiltEvents(p)
        /\ outcome[p].kind = "rows"
        /\ Len(outcome[p].value) = 1
        /\ Truthy(req[p].args.titleContains)
        /\ Truthy(req[p].args.endDate)
        /\ NonEmpty(req[p].args, "tags")
        /\ req[p].args.venueContains = Some(<<>>)
        /\ req[p].args.dayOfWeek = Null

(***************************************************************************)
(* Properties of the statement text and its parameters (SpecParams).       *)
(***************************************************************************)
TextFilters ==
    {"titleContains", "startDate", "endDate", "dayOfWeek", "timeOfDayBefore",
     "timeOfDayAfter", "venueContains"}

\* The direction a sort order asks for.
Direction(order) ==
    IF IsSome(order) THEN (IF toLowerCase(Val(order)) = <<"d", "e", "s", "c">>
                           THEN "DESC" ELSE "ASC")
    ELSE "ASC"

\* Other values of argument f of request a: the argument stays supplied, a tags
\* list keeps its length and a sort its field and direction.
OtherValues(a, f) ==
    IF ~IsSome(a[f]) THEN {}
    ELSE IF f \in TextFilters THEN {Some(<<>>), Some(Append(Val(a[f]), "z")), Some(<<"%">>)}
    ELSE IF f = "tags"
         THEN {Some([i \in 1..Len(Val(a.tags)) |-> Some(e)]) : e \in {<<>>, <<"z">>, <<",">>}}
    ELSE IF f = "sort"
         THEN {SortBy(Val(a.sort).field, o) :
                   o \in {d \in SortOrders : Direction(d) = Direction(Val(a.sort).order)}}
    ELSE {Some(0), Some(-1), Some(Val(a[f]) + 1)}

\* The same, where an empty text stays empty and a non-empty one non-empty, and a
\* limit or offset stays positive or stays non-positive.
OtherValuesAlike(a, f) ==
    {o \in OtherValues(a, f) :
        IF f \in TextFilters THEN (Len(Val(o)) > 0) <=> (Len(Val(a[f])) > 0)
        ELSE IF f \in {"limit", "offset"} THEN (Val(o) > 0) <=> (Val(a[f]) > 0)
        ELSE TRUE}

\* The position in q of its i-th placeholder.
RECURSIVE PlaceholderAt(_, _)
PlaceholderAt(q, i) ==
    LET first == CHOOSE j \in 1..Len(q) :
                     /\ q[j] \in Placeholders
                     /\ \A k \in 1..(j - 1) : q[k] \notin Placeholders
    IN  IF i = 1 THEN first
        ELSE first + PlaceholderAt(SubSeq(q, first + 1, Len(q)), i - 1)

\* The value bound to the placeholder of fragment q[j]: the value of the filter
\* that wrote the fragment (between % for the two LIKE filters, trimmed and in
\* lower case for a tag, in decimal for limit and offset).
ValueFor(a, q, j) ==
    CASE q[j] = TitleLike -> <<"%">> \o Val(a.titleContains) \o <<"%">>
      [] q[j] = DateGe -> Val(a.startDate)
      [] q[j] = DateLe -> Val(a.endDate)
      [] q[j] = DayNameEq -> Val(a.dayOfWeek)
      [] q[j] = TimeLe -> Val(a.timeOfDayBefore)
      [] q[j] = TimeGe -> Val(a.timeOfDayAfter)
      [] q[j] = VenueLike -> <<"%">> \o Val(a.venueContains) \o <<"%">>
      [] q[j] = TagCondition ->
             toLowerCase(trim(Val(Val(a.tags)[CountIn(SubSeq(q, 1, j), {TagCondition})])))
      [] q[j] = LimitClause -> NumberToString(Val(a.limit))
      [] OTHER -> NumberToString(Val(a.offset))

\* The fragments a statement is made of, none of them a value of the request.
FixedFragments ==
    {SelectAll, AndOpen, OrJoin, Close, OrderBy, "\"date_time\"", " ", "ASC", "DESC"}
    \cup Placeholders

\* The text and parameters of request p: the text is made of fixed fragments and
\* is the text of every request that differs from p's in one value of `others`
\* or in all of them; every placeholder has its parameter, the value of its filter.
Parameterized(p, others(_, _)) ==
    LET a == req[p].args
        q == built[p].query
        ps == built[p].params
        changed == UNION {{[a EXCEPT ![f] = o] : o \in others(a, f)} : f \in DOMAIN a}
                   \cup {[f \in DOMAIN a |-> IF others(a, f) = {} THEN a[f]
                                             ELSE CHOOSE o \in others(a, f) : TRUE]}
    IN  /\ \A j \in 1..Len(q) : q[j] \in FixedFragments
        /\ \A a2 \in changed :
               BuildEvents(a2).kind = "ok" => BuildEvents(a2).query = q
        /\ CountPlaceholders(q) = Len(ps)
        /\ \A i \in 1..Len(ps) : ps[i] = ValueFor(a, q, PlaceholderAt(q, i))

\* C8 as claimed: the text is the same for two requests that differ only in
\* supplied values, and every value is bound to the placeholder of its filter.
TextIndependentOfValues ==
    \A p \in Procs : BuiltEvents(p) => Parameterized(p, OtherValues)

\* C8 as amended: the text is the same for two requests that differ only in
\* supplied values and agree on which texts are empty and which of limit and
\* offset are positive; every value is bound to the placeholder of its filter.
TextIndependentOfNonEmptyValues ==
    \A p \in Procs : BuiltEvents(p) => Parameterized(p, OtherValuesAlike)

\* A completed request with text filters, two tags, a descending sort, a limit
\* and an offset, answered with rows.
TextIndependentOfNonEmptyValuesWitness ==
    \E p \in Procs :
        /\ Done(p) /\ BuiltEvents(p)
        /\ outcome[p].kind = "rows"
        /\ Truthy(req[p].args.titleContains)
        /\ Truthy(req[p].args.dayOfWeek)
        /\ NonEmpty(req[p].args, "tags") /\ Len(Val(req[p].args.tags)) = 2
        /\ IsSome(req[p].args.sort) /\ Direction(Val(req[p].args.sort).order) = "DESC"
        /\ Positive(req[p].args.limit) /\ Positive(req[p].args.offset)
        /\ Len(built[p].params) = 6

(***************************************************************************)
(* Properties of sorting and paging (SpecSortPage).                        *)
(***************************************************************************)
Ascending(rows) ==
    \A i, j \in 1..Len(rows) : i < j => rows[i].date_time <= rows[j].date_time

Descending(rows) ==
    \A i, j \in 1..Len(rows) : i < j => rows[i].date_time >= rows[j].date_time

\* C6: with the sort field date_time the statement orders by date_time, descending
\* exactly when sort.order is DESC in any letter case and ascending otherwise (an
\* unspecified order included), and the rows returned are in that order; a request
\* without a sort field has no ORDER BY, whatever its sort.order.
SortFollowsOrder ==
    \A p \in Procs : BuiltEvents(p) =>
        LET a == req[p].args
            q == built[p].query
            t == TailPart(q)
        IN  IF HasSortField(a)
            THEN LET dir == Direction(Val(a.sort).order)
                 IN  /\ Val(Val(a.sort).field) = "date_time"
                     /\ CountIn(q, {OrderBy}) = 1
                     /\ HasOrderBy(q)
                     /\ SubSeq(t, 1, 4) = <<OrderBy, "\"date_time\"", " ", dir>>
                     /\ outcome[p].kind = "rows" =>
                            IF dir = "DESC" THEN Descending(outcome[p].value)
                            ELSE Ascending(outcome[p].value)
            ELSE CountIn(q, {OrderBy, "ASC", "DESC"}) = 0

\* A completed request sorted by date_time with the order "desc" in lower case,
\* answered with two rows of different date_time, the later first.
SortFollowsOrderWitness ==
    \E p \in Procs :
        /\ Done(p) /\ BuiltEvents(p)
        /\ HasSortField(req[p].args)
        /\ Val(req[p].args.sort).order = Some(<<"d", "e", "s", "c">>)
        /\ outcome[p].kind = "rows"
        /\ Len(outcome[p].value) = 2
        /\ outcome[p].value[1].date_time > outcome[p].value[2].date_time

\* The limit or offset is given and is a positive integer.
GreaterThanZero(o) == IF IsSome(o) THEN 0 < Val(o) ELSE FALSE

\* The request with its zero or negative limit (offset) made absent.
WithoutNonPositive(a, fields) ==
    [f \in DOMAIN a |->
        IF f \in fields /\ IsSome(a[f])
        THEN (IF Val(a[f]) <= 0 THEN Null ELSE a[f])
        ELSE a[f]]

\* C7: a zero or negative limit or offset is ignored: the statement, the
\* parameters and the possible results are those of the request with that limit
\* or offset (or both) absent; LIMIT and OFFSET are in the statement exactly for
\* a positive limit and a positive offset.
NonPositivePageIgnored ==
    \A p \in Procs : BuiltEvents(p) =>
        LET a == req[p].args
            q == built[p].query
        IN  /\ \A fields \in {{"limit"}, {"offset"}, {"limit", "offset"}} :
                   LET b == BuildEvents(WithoutNonPositive(a, fields))
                   IN  /\ b.kind = "ok"
                       /\ b.query = q
                       /\ b.params = built[p].params
                       /\ outcome[p].kind = "rows" =>
                              outcome[p].value \in ExecuteRows(b.query, b.params, table)
            /\ CountIn(q, {LimitClause}) = (IF GreaterThanZero(a.limit) THEN 1 ELSE 0)
            /\ CountIn(q, {OffsetClause}) = (IF GreaterThanZero(a.offset) THEN 1 ELSE 0)

\* A completed request with limit 0 and offset -1, answered with every row.
NonPositivePageIgnoredWitness ==
    \E p \in Procs :
        /\ Done(p) /\ BuiltEvents(p)
        /\ req[p].args.limit = Some(0)
        /\ req[p].args.offset = Some(-1)
        /\ outcome[p].kind = "rows"
        /\ Len(outcome[p].value) = 2
        /\ Len(table) = 2

\* C9: the paging clauses of every statement sent are well-formed: OFFSET only
\* right after LIMIT, so no request fails in the store because of them.
PagingWellFormed ==
    \A p \in Procs : BuiltEvents(p) =>
        /\ \A j \in 1..Len(built[p].query) :
               built[p].query[j] = OffsetClause =>
                   (j > 1 /\ built[p].query[IF j > 1 THEN j - 1 ELSE 1] = LimitClause)
        /\ fault[p] # "syntax"

(***************************************************************************)
(* Properties of tag matching (SpecTags).                                  *)
(***************************************************************************)
\* The tags of a row: the elements between the commas, trimmed, in lower case.
TagsOfRow(r) ==
    LET els == split(r.tags) IN {toLowerCase(trim(els[i])) : i \in 1..Len(els)}

\* C5: with a non-empty tags filter, a row is selected exactly when one of the
\* requested tags is among the row's tags, letter case and surrounding blanks of
\* a tag ignored.  (Stated for requested tags that are not blank; a blank tag
\* is not found in an empty tag list either.)
TagMatchIgnoresCaseAndBlanks ==
    \A p \in Procs : (BuiltEvents(p) /\ NonEmpty(req[p].args, "tags")) =>
        LET tags == Val(req[p].args.tags)
        IN  (\A i \in 1..Len(tags) : Len(trim(Val(tags[i]))) > 0) =>
                \A r \in TableRows :
                    Where(built[p].query, built[p].params, r)
                        <=> \E i \in 1..Len(tags) :
                                toLowerCase(trim(Val(tags[i]))) \in TagsOfRow(r)

\* C10: uniqueTags returns, without duplicates, the trimmed lower-case tags of
\* every row, and events(tags: [t]) selects a row for every tag t it returns.
\* (The last part stated for the tags that are not empty.)
UniqueTagsAreFindable ==
    \A p \in Procs : (Done(p) /\ req[p].op = "uniqueTags" /\ outcome[p].kind = "tags") =>
        LET ts == outcome[p].value
        IN  /\ \A i, j \in 1..Len(ts) : ts[i] = ts[j] => i = j
            /\ {ts[i] : i \in 1..Len(ts)} = UNION {TagsOfRow(r) : r \in TableRows}
            /\ \A i \in 1..Len(ts) : Len(ts[i]) > 0 =>
                   LET b == BuildEvents([NoArgs EXCEPT !.tags = Some(<<Some(ts[i])>>)])
                   IN  /\ b.kind = "ok"
                       /\ \E r \in TableRows : Where(b.query, b.params, r)

====
